---- MODULE Spec2Model ----
(***************************************************************************)
(* Model of src/app.py: the Ammsa sales dashboard.                         *)
(*                                                                         *)
(* One HTTP GET handler (dashboard) loads Ammsa_Sales.csv (load_data),     *)
(* computes four KPIs, renders four charts through the process-global      *)
(* pyplot figure registry (create_plot) and renders a template.            *)
(*                                                                         *)
(* Text is modelled as a sequence of one-character strings so that         *)
(* str.replace, float(), to_datetime and the ',.0f' format can be          *)
(* computed character by character.  Numbers are integers: every amount    *)
(* drawn below is written with digits and commas only, so the float        *)
(* arithmetic of the program is exact on them.                             *)
(***************************************************************************)
EXTENDS Integers, Sequences, FiniteSets

(***************************************************************************)
(* Bounds of the model.                                                    *)
(***************************************************************************)
\* Longest table of fixture rows drawn for the file.
MaxRows == 2
\* Longest table of the one-row-per-group family (more groups than a top-10 keeps).
MaxWide == 11
\* A request starts only while fewer figures than this are left open.
MaxLeaked == 2
\* How often the scheduler may switch between two interleaved executions.
MaxSwitches == 3

(***************************************************************************)
(* Program constants.                                                      *)
(***************************************************************************)
\* nlargest(10) in plot_top_products
TopProducts == 10
\* nlargest(10) in plot_city_balance
TopCities == 10

\* Column names of the implicitly assumed schema.
OD == "Order Date"
TP == "Total Price"
TC == "Total Cost"
EA == "Expense Amount"
OB == "Outstanding Balance"
PR == "Product"
CI == "City"
ET == "Expense Type"
MY == "Month_Year"

\* cols_to_clean, in the order load_data walks it
cols_to_clean == <<TP, TC, EA, OB>>

Schema == {OD, TP, TC, EA, OB, PR, CI, ET}

(***************************************************************************)
(* Text helpers.                                                           *)
(***************************************************************************)
Digits == <<"0", "1", "2", "3", "4", "5", "6", "7", "8", "9">>

IsDigit(c) == \E i \in DOMAIN Digits : Digits[i] = c

DigitVal(c) == (CHOOSE i \in DOMAIN Digits : Digits[i] = c) - 1

\* The characters used in keys, in code point order (Python compares str so).
CodePoints == <<"-", "0", "1", "2", "3", "4", "5", "6", "7", "8", "9",
                "A", "B", "C", "D", "E", "F", "G", "H", "I", "J", "K", "L",
                "M", "N", "P", "Q", "T", "a">>

Ord(c) == CHOOSE i \in DOMAIN CodePoints : CodePoints[i] = c

RECURSIVE StrLess(_, _)
StrLess(a, b) ==
    IF b = <<>> THEN FALSE
    ELSE IF a = <<>> THEN TRUE
    ELSE IF Ord(Head(a)) # Ord(Head(b)) THEN Ord(Head(a)) < Ord(Head(b))
    ELSE StrLess(Tail(a), Tail(b))

\* Decimal value of a string of digits.
RECURSIVE DigitsValue(_)
DigitsValue(s) ==
    IF s = <<>> THEN 0
    ELSE 10 * DigitsValue(SubSeq(s, 1, Len(s) - 1)) + DigitVal(s[Len(s)])

IsIntText(s) == s # <<>> /\ \A i \in DOMAIN s : IsDigit(s[i])

(***************************************************************************)
(* Values held in a DataFrame cell.                                        *)
(***************************************************************************)
Num(n) == [k |-> "num", n |-> n, s |-> <<>>]
Str(s) == [k |-> "str", n |-> 0, s |-> s]
Date(s) == [k |-> "date", n |-> 0, s |-> s]
NaN == [k |-> "nan", n |-> 0, s |-> <<>>]
NaT == [k |-> "nat", n |-> 0, s |-> <<>>]
\* An exception raised while converting a value.
Raised == [k |-> "raise", n |-> 0, s |-> <<>>]

\* pandas' default na_values, as far as the drawn cells use them.
NaValues == {<<>>, <<"N", "A">>}

EmptyDF == [cols |-> {}, dtype |-> <<>>, rows |-> <<>>]

\* An emptiness test that looks at the columns only.
IsEmptyNoColumns(df) == df.cols = {}

\* DataFrame.empty: any axis of length 0
IsEmpty(df) == df.cols = {} \/ Len(df.rows) = 0

(***************************************************************************)
(* The file.                                                               *)
(***************************************************************************)
Absent == [exists |-> FALSE, cols |-> {}, rows |-> <<>>]

\* pd.read_csv: raises for a missing or empty file; a column whose cells are
\* all integers or missing is numeric, any other column is object (text).
CsvReadable(f) == f.exists /\ f.cols # {}

ColIsNumeric(f, c) ==
    /\ Len(f.rows) > 0
    /\ \A i \in DOMAIN f.rows : f.rows[i][c] \in NaValues \/ IsIntText(f.rows[i][c])

CsvValue(f, c, cell) ==
    IF cell \in NaValues THEN NaN
    ELSE IF ColIsNumeric(f, c) THEN Num(DigitsValue(cell))
    ELSE Str(cell)

read_csv(f) ==
    [cols |-> f.cols,
     dtype |-> [c \in f.cols |-> IF ColIsNumeric(f, c) THEN "number" ELSE "object"],
     rows |-> [i \in DOMAIN f.rows |-> [c \in f.cols |-> CsvValue(f, c, f.rows[i][c])]]]

(***************************************************************************)
(* load_data.                                                              *)
(***************************************************************************)
\* Series.astype(str): a missing value becomes the text 'nan'
astype_str(v) == IF v.k = "nan" THEN <<"n", "a", "n">> ELSE v.s

\* A replace that removes nothing.
str_replace_none(s) == s

\* Series.str.replace(',', '')
IsNotComma(c) == c # ","

str_replace(s) == SelectSeq(s, IsNotComma)

\* Series.astype(float) on text: float(s), which raises ValueError on other text
astype_float(s) ==
    IF IsIntText(s) THEN Num(DigitsValue(s))
    ELSE IF s = <<"n", "a", "n">> THEN NaN
    ELSE Raised

\* line 27, for one cell
CleanValue(v) == astype_float(str_replace(astype_str(v)))

SetColumn(df, c, dt, vals) ==
    [cols |-> df.cols \cup {c},
     dtype |-> [d \in df.cols \cup {c} |-> IF d = c THEN dt ELSE df.dtype[d]],
     rows |-> [i \in DOMAIN df.rows |->
                 [d \in df.cols \cup {c} |-> IF d = c THEN vals[i] ELSE df.rows[i][d]]]]

Column(df, c) == [i \in DOMAIN df.rows |-> df.rows[i][c]]

AnyRaised(vals) == \E i \in DOMAIN vals : vals[i] = Raised

\* lines 25-27: the loop over cols_to_clean from position i on; ok is FALSE when
\* a conversion raised, and df is then the table as cleaned up to that point.
RECURSIVE CleanFrom(_, _)
CleanFrom(df, i) ==
    IF i > Len(cols_to_clean) THEN [ok |-> TRUE, df |-> df]
    ELSE LET c == cols_to_clean[i] IN
         IF c \in df.cols /\ df.dtype[c] = "object"
         THEN LET vals == [r \in DOMAIN df.rows |-> CleanValue(df.rows[r][c])] IN
              IF AnyRaised(vals) THEN [ok |-> FALSE, df |-> df]
              ELSE CleanFrom(SetColumn(df, c, "number", vals), i + 1)
         ELSE CleanFrom(df, i + 1)

\* Date text is written Y-M-D with one digit each (an abbreviated ISO date).
IsDateText(s) ==
    /\ Len(s) = 5
    /\ IsDigit(s[1]) /\ s[2] = "-" /\ IsDigit(s[3]) /\ s[4] = "-" /\ IsDigit(s[5])
    /\ DigitVal(s[3]) >= 1 /\ DigitVal(s[5]) >= 1

\* pd.to_datetime, for one cell of a text column: a missing value becomes NaT,
\* text that is no date raises.  (The cells drawn for 'Order Date' are never
\* integers, so the column is never numeric.)
to_datetime(v) ==
    CASE v.k = "nan" -> NaT
      [] v.k = "str" -> IF IsDateText(v.s) THEN Date(<<v.s[1], v.s[3], v.s[5]>>)
                        ELSE Raised

\* .dt.to_period('M').astype(str)
to_period_str(v) ==
    IF v.k = "date" THEN Str(<<v.s[1], "-", v.s[2]>>) ELSE Str(<<"N", "a", "T">>)

\* lines 30-32
ConvertDates(df) ==
    IF OD \in df.cols
    THEN LET dates == [r \in DOMAIN df.rows |-> to_datetime(df.rows[r][OD])] IN
         IF AnyRaised(dates) THEN [ok |-> FALSE, df |-> df]
         ELSE LET d1 == SetColumn(df, OD, "datetime", dates) IN
              [ok |-> TRUE,
               df |-> SetColumn(d1, MY, "object",
                                [r \in DOMAIN df.rows |-> to_period_str(dates[r])])]
    ELSE [ok |-> TRUE, df |-> df]

\* The try block, lines 19-34: ok is FALSE when any statement of it raised.
TryLoad(f) ==
    IF ~CsvReadable(f) THEN [ok |-> FALSE, df |-> EmptyDF]
    ELSE LET cleaned == CleanFrom(read_csv(f), 1) IN
         IF ~cleaned.ok THEN cleaned ELSE ConvertDates(cleaned.df)

\* A loader whose except branch hands back the table as far as it got.
load_data_partial(f) ==
    LET r == TryLoad(f) IN [df |-> r.df, logged |-> ~r.ok]

\* load_data: the table, or an empty DataFrame and a printed message
load_data(f) ==
    LET r == TryLoad(f) IN
    [df |-> IF r.ok THEN r.df ELSE EmptyDF, logged |-> ~r.ok]

(***************************************************************************)
(* Aggregation: Series.sum, groupby(...).sum(), idxmax, nlargest.          *)
(***************************************************************************)
\* Series.sum(): adds the values in row order, skipping missing ones
RECURSIVE SeriesSum(_)
SeriesSum(vals) ==
    IF Len(vals) = 0 THEN 0
    ELSE SeriesSum(SubSeq(vals, 1, Len(vals) - 1))
         + (IF vals[Len(vals)].k = "num" THEN vals[Len(vals)].n ELSE 0)

\* The group keys of a column: rows with a missing key belong to no group.
KeySet(df, key) ==
    {df.rows[i][key].s : i \in {j \in DOMAIN df.rows : df.rows[j][key].k = "str"}}

RECURSIVE SortedKeys(_)
SortedKeys(S) ==
    IF S = {} THEN <<>>
    ELSE LET m == CHOOSE k \in S : \A j \in S \ {k} : StrLess(k, j) IN
         <<m>> \o SortedKeys(S \ {m})

\* Group keys in the order the rows first show them (groupby(sort=False)).
RECURSIVE KeysByAppearance(_, _, _)
KeysByAppearance(df, key, i) ==
    IF i > Len(df.rows) THEN <<>>
    ELSE LET v == df.rows[i][key] IN
         IF v.k = "str" /\ \A j \in 1..(i - 1) : df.rows[j][key] # v
         THEN <<v.s>> \o KeysByAppearance(df, key, i + 1)
         ELSE KeysByAppearance(df, key, i + 1)

GroupKeysUnsorted(df, key) == KeysByAppearance(df, key, 1)

\* groupby(key): the groups come sorted by key (sort=True is the default)
GroupKeys(df, key) == SortedKeys(KeySet(df, key))

RowsOfGroup(df, key, k) ==
    SelectSeq(df.rows, LAMBDA r : r[key].k = "str" /\ r[key].s = k)

\* A group-by that answers a missing column with no groups instead of KeyError.
GroupSumLenient(df, key, val) ==
    IF key \notin df.cols \/ val \notin df.cols THEN [ok |-> TRUE, data |-> <<>>]
    ELSE LET keys == GroupKeys(df, key) IN
         [ok |-> TRUE,
          data |-> [i \in DOMAIN keys |->
                      [key |-> keys[i],
                       val |-> LET g == RowsOfGroup(df, key, keys[i]) IN
                               SeriesSum([j \in DOMAIN g |-> g[j][val]])]]]

\* df.groupby(key)[val].sum(): KeyError when either column is missing
GroupSum(df, key, val) ==
    IF key \notin df.cols \/ val \notin df.cols THEN [ok |-> FALSE, data |-> <<>>]
    ELSE LET keys == GroupKeys(df, key) IN
         [ok |-> TRUE,
          data |-> [i \in DOMAIN keys |->
                      [key |-> keys[i],
                       val |-> LET g == RowsOfGroup(df, key, keys[i]) IN
                               SeriesSum([j \in DOMAIN g |-> g[j][val]])]]]

SeriesMax(series) ==
    CHOOSE m \in {series[i].val : i \in DOMAIN series} :
        \A i \in DOMAIN series : series[i].val <= m

\* Position of the first largest value.
FirstMax(series) ==
    CHOOSE i \in DOMAIN series :
        /\ series[i].val = SeriesMax(series)
        /\ \A j \in 1..(i - 1) : series[j].val # SeriesMax(series)

RemoveAt(seq, i) == SubSeq(seq, 1, i - 1) \o SubSeq(seq, i + 1, Len(seq))

\* head(n) in place of nlargest(n): the first n groups as the series holds them.
nlargest_head(n, series) ==
    SubSeq(series, 1, IF n < Len(series) THEN n ELSE Len(series))

\* Series.nlargest(n): the n largest values, largest first, values that tie in
\* the order the series holds them (keep='first'); fewer when the series is shorter
RECURSIVE nlargest(_, _)
nlargest(n, series) ==
    IF n = 0 \/ Len(series) = 0 THEN <<>>
    ELSE LET i == FirstMax(series) IN
         <<series[i]>> \o nlargest(n - 1, RemoveAt(series, i))

(***************************************************************************)
(* The ',.0f' format of the KPIs.                                          *)
(***************************************************************************)
RECURSIVE DigitsOf(_)
DigitsOf(n) ==
    IF n < 10 THEN <<Digits[n + 1]>>
    ELSE DigitsOf(n \div 10) \o <<Digits[(n % 10) + 1]>>

RECURSIVE GroupThousands(_)
GroupThousands(d) ==
    IF Len(d) <= 3 THEN d
    ELSE GroupThousands(SubSeq(d, 1, Len(d) - 3)) \o <<",">>
         \o SubSeq(d, Len(d) - 2, Len(d))

\* f"{x:,.0f}" for a whole number x
FormatThousands(x) ==
    IF x < 0 THEN <<"-">> \o GroupThousands(DigitsOf(-x))
    ELSE GroupThousands(DigitsOf(x))

(***************************************************************************)
(* dashboard, lines 84-87: the KPIs.  ok is FALSE when a statement raised  *)
(* (KeyError for a missing column, ValueError for idxmax of no groups).    *)
(***************************************************************************)
NoKpi == [ok |-> FALSE, revenue |-> 0, outstanding |-> 0, profit |-> 0, top_city |-> <<>>]

ComputeKpis(df) ==
    IF TP \notin df.cols \/ OB \notin df.cols \/ TC \notin df.cols THEN NoKpi
    ELSE LET total_revenue == SeriesSum(Column(df, TP))
             total_outstanding == SeriesSum(Column(df, OB))
             net_profit == total_revenue - SeriesSum(Column(df, TC))
             by_city == GroupSum(df, CI, TP)
         IN IF ~by_city.ok \/ Len(by_city.data) = 0 THEN NoKpi
            ELSE [ok |-> TRUE, revenue |-> total_revenue,
                  outstanding |-> total_outstanding, profit |-> net_profit,
                  top_city |-> by_city.data[FirstMax(by_city.data)].key]

(***************************************************************************)
(* The four plot functions: what each draws on the current figure.         *)
(***************************************************************************)
PlotFuncs == <<"plot_monthly_trend", "plot_top_products",
               "plot_city_balance", "plot_expense_dist">>

plot_monthly_trend(df) == GroupSum(df, MY, TP)

plot_top_products(df) ==
    LET g == GroupSum(df, PR, TP) IN
    [ok |-> g.ok, data |-> nlargest(TopProducts, g.data)]

plot_city_balance(df) ==
    LET g == GroupSum(df, CI, OB) IN
    [ok |-> g.ok, data |-> nlargest(TopCities, g.data)]

plot_expense_dist(df) == GroupSum(df, ET, EA)

\* plot_func(df) for the k-th chart: ok is FALSE when it raised KeyError,
\* otherwise art is the chart it adds to the current figure.
PlotFunc(k, df) ==
    LET r == CASE k = 1 -> plot_monthly_trend(df)
               [] k = 2 -> plot_top_products(df)
               [] k = 3 -> plot_city_balance(df)
               [] k = 4 -> plot_expense_dist(df)
    IN [ok |-> r.ok, art |-> [chart |-> PlotFuncs[k], data |-> r.data]]

(***************************************************************************)
(* The contents drawn for Ammsa_Sales.csv.                                 *)
(***************************************************************************)
Row(d, tp, tc, ea, ob, pr, ci, et) ==
    [c \in Schema |->
        CASE c = OD -> d  [] c = TP -> tp [] c = TC -> tc [] c = EA -> ea
          [] c = OB -> ob [] c = PR -> pr [] c = CI -> ci [] c = ET -> et]

\* Fixture rows: amounts with and without thousands separators, two cities
\* whose revenue ties (rows 1 and 2), two products, two months.
Templates ==
    << Row(<<"4", "-", "1", "-", "5">>, <<"1", ",", "2">>, <<"5">>, <<"3">>,
           <<"2">>, <<"P">>, <<"A">>, <<"E">>),
       Row(<<"4", "-", "2", "-", "5">>, <<"1", "2">>, <<"1", ",", "0">>, <<"4">>,
           <<"2">>, <<"Q">>, <<"B">>, <<"F">>),
       Row(<<"4", "-", "1", "-", "7">>, <<"7">>, <<"2">>, <<"1", ",", "1">>,
           <<"1", ",", "5">>, <<"P">>, <<"B">>, <<"E">>),
       Row(<<"4", "-", "2", "-", "1">>, <<"1", ",", "2", "3", "4">>, <<"3", "0">>,
           <<"2">>, <<"0">>, <<"Q">>, <<"A">>, <<"F">>) >>

Table(rows) == [exists |-> TRUE, cols |-> Schema, rows |-> rows]

\* A file that exists and holds nothing, not even a header.
EmptyFile == [exists |-> TRUE, cols |-> {}, rows |-> <<>>]

PlainTables ==
    UNION {{Table([i \in 1..n |-> Templates[t[i]]]) : t \in [1..n -> DOMAIN Templates]} :
           n \in 0..MaxRows}

DropColumn(f, c) ==
    [exists |-> TRUE, cols |-> f.cols \ {c},
     rows |-> [i \in DOMAIN f.rows |-> [d \in f.cols \ {c} |-> f.rows[i][d]]]]

\* The file carries a 'Month_Year' column of its own in place of 'Order Date'.
MonthForDate(f) ==
    [exists |-> TRUE, cols |-> (f.cols \ {OD}) \cup {MY},
     rows |-> [i \in DOMAIN f.rows |->
                 [d \in (f.cols \ {OD}) \cup {MY} |->
                     IF d = MY THEN SubSeq(f.rows[i][OD], 1, 3) ELSE f.rows[i][d]]]]

SetCell(f, r, c, cell) ==
    [f EXCEPT !.rows = [i \in DOMAIN f.rows |->
                          IF i = r THEN [f.rows[i] EXCEPT ![c] = cell] ELSE f.rows[i]]]

\* Cells written over a good one: text that is no number and no date, an
\* empty cell, and the marker NA.
BadCells == {<<"$", "5">>, <<>>, <<"N", "A">>}

Letters == <<"A", "B", "C", "D", "E", "F", "G", "H", "I", "J", "K", "L", "M">>

\* n rows, one product and one city each, the products in falling key order;
\* the rows in S sell for 2 and are owed 1, the others sell for 1 and are owed 2.
WideTable(n, S) ==
    Table([i \in 1..n |->
             Row(<<"4", "-", "1", "-", "5">>,
                 IF i \in S THEN <<"2">> ELSE <<"1">>, <<"1">>, <<"1">>,
                 IF i \in S THEN <<"1">> ELSE <<"2">>,
                 <<Letters[n + 1 - i]>>, <<Letters[i]>>, <<"E">>)])

WideTables ==
    UNION {{WideTable(n, S) : S \in SUBSET {1, 2, n - 1, n}} :
           n \in (TopProducts + 1)..MaxWide}

Files ==
    {Absent, EmptyFile}
    \cup PlainTables
    \cup {DropColumn(f, c) : c \in Schema, f \in PlainTables}
    \cup {MonthForDate(f) : f \in PlainTables}
    \cup UNION {{SetCell(f, r, c, cell) :
                    r \in DOMAIN f.rows, c \in {OD, TP, TC, EA, OB}, cell \in BadCells} :
                f \in PlainTables}
    \cup WideTables

\* The contents the file is replaced with while the server runs.
Fixtures ==
    {Absent,
     Table(<<>>),
     Table(<<Templates[1], Templates[2]>>),
     Table(<<Templates[3]>>),
     DropColumn(Table(<<Templates[1]>>), PR)}

(***************************************************************************)
(* pyplot's figure registry (process-global): the open figures, the        *)
(* current one last.  Every pyplot call works on the current figure.       *)
(***************************************************************************)
NextNum(fg) ==
    IF fg = <<>> THEN 1
    ELSE 1 + (CHOOSE m \in {fg[i].num : i \in DOMAIN fg} :
                 \A i \in DOMAIN fg : fg[i].num <= m)

\* plt.figure(): a new figure, which becomes the current one
plt_figure(fg) == Append(fg, [num |-> NextNum(fg), art |-> <<>>])

\* plt.gcf(): the current figure, made first when none is open
plt_gcf(fg) == IF fg = <<>> THEN plt_figure(fg) ELSE fg

\* Drawing calls addressed to the oldest open figure instead of the current one.
plt_draw_first(fg, art) ==
    LET g == plt_gcf(fg) IN [g EXCEPT ![1].art = Append(@, art)]

\* What the pyplot and seaborn calls of a plot function do: draw on gcf()
plt_draw(fg, art) ==
    LET g == plt_gcf(fg) IN [g EXCEPT ![Len(g)].art = Append(@, art)]

\* plt.close(): closes the current figure, if any
plt_close(fg) == IF fg = <<>> THEN fg ELSE SubSeq(fg, 1, Len(fg) - 1)

(***************************************************************************)
(* State.                                                                  *)
(***************************************************************************)
Procs == {1, 2}

ErrorText ==
    "Error: Could not load Ammsa_Sales.csv. Please ensure the file is in the root directory."

NoResponse ==
    [kind |-> "none", text |-> "", revenue |-> <<>>, outstanding |-> <<>>,
     profit |-> <<>>, top_city |-> <<>>, plots |-> <<>>]

ErrorResponse == [NoResponse EXCEPT !.kind = "text", !.text = ErrorText]

\* render_template('dashboard.html', ...), lines 95-103
Page(k, urls) ==
    [kind |-> "html", text |-> "dashboard.html",
     revenue |-> FormatThousands(k.revenue),
     outstanding |-> FormatThousands(k.outstanding),
     profit |-> FormatThousands(k.profit),
     top_city |-> k.top_city, plots |-> urls]

\* f"data:image/png;base64,{plot_url}" of the image savefig wrote
DataUrl(image) == [scheme |-> "data:image/png;base64", png |-> image]

VARIABLES
    file,       \* Ammsa_Sales.csv on disk
    figs,       \* pyplot's open figures, the current one last
    pc,         \* where each handler execution stands
    df,         \* dashboard's df
    logged,     \* load_data printed "Error loading data"
    kpi,        \* the KPIs of lines 84-87
    calls,      \* how many create_plot calls the execution has made
    img,        \* create_plot's img
    urls,       \* the values create_plot has returned
    response,   \* what the handler returned
    snapshot,   \* the file contents load_data read (history)
    opened,     \* the figure this create_plot call's plt.figure() opened (history)
    closed,     \* the figure this create_plot call's plt.close() closed (history)
    running,    \* the execution that took the last step
    switches    \* how often the scheduler has switched executions

vars == <<file, figs, pc, df, logged, kpi, calls, img, urls, response,
          snapshot, opened, closed, running, switches>>

sched == <<running, switches>>

locals == <<df, logged, kpi, calls, img, urls, response, snapshot, opened, closed>>

InitLocals ==
    /\ pc = [p \in Procs |-> "idle"]
    /\ df = [p \in Procs |-> EmptyDF]
    /\ logged = [p \in Procs |-> FALSE]
    /\ kpi = [p \in Procs |-> NoKpi]
    /\ calls = [p \in Procs |-> 0]
    /\ img = [p \in Procs |-> <<>>]
    /\ urls = [p \in Procs |-> <<>>]
    /\ response = [p \in Procs |-> NoResponse]
    /\ snapshot = [p \in Procs |-> Absent]
    /\ opened = [p \in Procs |-> 0]
    /\ closed = [p \in Procs |-> 0]
    /\ figs = <<>>
    /\ running = 1
    /\ switches = 0

\* The server starts beside a file of any of the drawn contents.
Init == file \in Files /\ InitLocals

InitFixture == file \in Fixtures /\ InitLocals

(***************************************************************************)
(* The steps of one execution of dashboard().                              *)
(***************************************************************************)
\* The scheduler runs p next: a switch when another execution ran last.
Schedule(p) ==
    IF p = running THEN UNCHANGED sched
    ELSE /\ switches < MaxSwitches
         /\ switches' = switches + 1
         /\ running' = p

\* line 78: df = load_data()
LoadData(p) ==
    /\ Schedule(p)
    /\ pc[p] = "idle"
    /\ Len(figs) < MaxLeaked
    /\ LET r == load_data(file) IN
       /\ df' = [df EXCEPT ![p] = r.df]
       /\ logged' = [logged EXCEPT ![p] = r.logged]
    /\ snapshot' = [snapshot EXCEPT ![p] = file]
    /\ pc' = [pc EXCEPT ![p] = "check"]
    /\ UNCHANGED <<file, figs, kpi, calls, img, urls, response, opened, closed>>

\* lines 80-81: if df.empty: return the error text
CheckEmpty(p) ==
    /\ Schedule(p)
    /\ pc[p] = "check"
    /\ IF IsEmpty(df[p])
       THEN /\ response' = [response EXCEPT ![p] = ErrorResponse]
            /\ pc' = [pc EXCEPT ![p] = "done"]
       ELSE /\ response' = response
            /\ pc' = [pc EXCEPT ![p] = "kpi"]
    /\ UNCHANGED <<file, figs, df, logged, kpi, calls, img, urls, snapshot, opened, closed>>

\* lines 84-87
Kpis(p) ==
    /\ Schedule(p)
    /\ pc[p] = "kpi"
    /\ LET k == ComputeKpis(df[p]) IN
       IF k.ok
       THEN /\ kpi' = [kpi EXCEPT ![p] = k]
            /\ pc' = [pc EXCEPT ![p] = "figure"]
       ELSE /\ kpi' = kpi
            /\ pc' = [pc EXCEPT ![p] = "fault"]
    /\ UNCHANGED <<file, figs, df, logged, calls, img, urls, response, snapshot,
                   opened, closed>>

\* create_plot, lines 41-42: img = io.BytesIO(); plt.figure()
OpenFigure(p) ==
    /\ Schedule(p)
    /\ pc[p] = "figure"
    /\ calls' = [calls EXCEPT ![p] = @ + 1]
    /\ img' = [img EXCEPT ![p] = <<>>]
    /\ figs' = plt_figure(figs)
    /\ opened' = [opened EXCEPT ![p] = figs'[Len(figs')].num]
    /\ pc' = [pc EXCEPT ![p] = "plot"]
    /\ UNCHANGED <<file, df, logged, kpi, urls, response, snapshot, closed>>

\* create_plot, line 43: plot_func(df); an exception leaves create_plot here
CallPlotFunc(p) ==
    /\ Schedule(p)
    /\ pc[p] = "plot"
    /\ LET r == PlotFunc(calls[p], df[p]) IN
       IF r.ok
       THEN /\ figs' = plt_draw(figs, r.art)
            /\ pc' = [pc EXCEPT ![p] = "save"]
       ELSE /\ figs' = figs
            /\ pc' = [pc EXCEPT ![p] = "fault"]
    /\ UNCHANGED <<file, df, logged, kpi, calls, img, urls, response, snapshot,
                   opened, closed>>

\* create_plot, lines 44-46: plt.tight_layout(); plt.savefig(img, format='png')
SaveFig(p) ==
    /\ Schedule(p)
    /\ pc[p] = "save"
    /\ figs' = plt_gcf(figs)
    /\ img' = [img EXCEPT ![p] = [format |-> "png", art |-> figs'[Len(figs')].art]]
    /\ pc' = [pc EXCEPT ![p] = "close"]
    /\ UNCHANGED <<file, df, logged, kpi, calls, urls, response, snapshot, opened, closed>>

\* create_plot, lines 47-49: encode img, plt.close(), return the data URL
ClosePlot(p) ==
    /\ Schedule(p)
    /\ pc[p] = "close"
    /\ figs' = plt_close(figs)
    /\ closed' = [closed EXCEPT ![p] = IF figs = <<>> THEN 0 ELSE figs[Len(figs)].num]
    /\ urls' = [urls EXCEPT ![p] = Append(@, DataUrl(img[p]))]
    /\ pc' = [pc EXCEPT ![p] = IF calls[p] = Len(PlotFuncs) THEN "render" ELSE "figure"]
    /\ UNCHANGED <<file, df, logged, kpi, calls, img, response, snapshot, opened>>

\* lines 95-103
Render(p) ==
    /\ Schedule(p)
    /\ pc[p] = "render"
    /\ response' = [response EXCEPT ![p] = Page(kpi[p], urls[p])]
    /\ pc' = [pc EXCEPT ![p] = "done"]
    /\ UNCHANGED <<file, figs, df, logged, kpi, calls, img, urls, snapshot, opened, closed>>

\* The execution is over (a response went out, or the fault reached the HTTP
\* layer); its locals are gone and the server takes the next request.
Finish(p) ==
    /\ Schedule(p)
    /\ pc[p] \in {"done", "fault"}
    /\ pc' = [pc EXCEPT ![p] = "idle"]
    /\ df' = [df EXCEPT ![p] = EmptyDF]
    /\ logged' = [logged EXCEPT ![p] = FALSE]
    /\ kpi' = [kpi EXCEPT ![p] = NoKpi]
    /\ calls' = [calls EXCEPT ![p] = 0]
    /\ img' = [img EXCEPT ![p] = <<>>]
    /\ urls' = [urls EXCEPT ![p] = <<>>]
    /\ response' = [response EXCEPT ![p] = NoResponse]
    /\ snapshot' = [snapshot EXCEPT ![p] = Absent]
    /\ opened' = [opened EXCEPT ![p] = 0]
    /\ closed' = [closed EXCEPT ![p] = 0]
    /\ UNCHANGED <<file, figs>>

\* Somebody replaces, empties or removes the file.
WriteFile ==
    /\ \E f \in Fixtures : file' = f
    /\ file' # file
    /\ UNCHANGED <<figs, pc, locals, sched>>

Handler(p) ==
    \/ LoadData(p)
    \/ CheckEmpty(p)
    \/ Kpis(p)
    \/ OpenFigure(p)
    \/ CallPlotFunc(p)
    \/ SaveFig(p)
    \/ ClosePlot(p)
    \/ Render(p)
    \/ Finish(p)

\* One request at a time, the file as it was when the server started.
Next == Handler(1)

Spec == Init /\ [][Next]_vars

\* One request at a time, while the file changes.
NextEnv == Handler(1) \/ WriteFile

SpecEnv == InitFixture /\ [][NextEnv]_vars

\* Two handler executions interleaved, as the threaded development server
\* started by app.run may run them.
NextConc == \E p \in Procs : Handler(p)

SpecConc == InitFixture /\ [][NextConc]_vars

(***************************************************************************)
(* What one execution of dashboard() yields for given file contents when   *)
(* no other execution runs and no figure is open: lines 77-103 in one go.  *)
(***************************************************************************)
FaultOutcome == [NoResponse EXCEPT !.kind = "fault"]

Outcome(f) ==
    LET d == load_data(f).df
        k == ComputeKpis(d)
    IN IF IsEmpty(d) THEN ErrorResponse
       ELSE IF ~k.ok \/ \E i \in DOMAIN PlotFuncs : ~PlotFunc(i, d).ok THEN FaultOutcome
       ELSE Page(k, [i \in DOMAIN PlotFuncs |->
                        DataUrl([format |-> "png", art |-> <<PlotFunc(i, d).art>>])])

\* What the execution p has yielded so far.
Yielded(p) ==
    IF pc[p] = "fault" THEN FaultOutcome ELSE response[p]

(***************************************************************************)
(* Properties.                                                             *)
(***************************************************************************)
\* The execution p has called load_data and still holds what it returned.
Loaded(p) == pc[p] # "idle"

\* The text is a number once its commas are deleted.
NumberAfterCommas(cell) ==
    LET t == SelectSeq(cell, LAMBDA ch : ch # ",") IN
    t # <<>> /\ \A i \in DOMAIN t : IsDigit(t[i])

\* The cell is blank or a missing-value marker.
Missing(cell) == cell = <<>> \/ cell = <<"N", "A">>

\* pandas reads the column as text (object): some cell is neither an integer
\* nor missing, or there is no row at all.
ObjectTyped(f, c) ==
    \/ f.rows = <<>>
    \/ \E r \in DOMAIN f.rows : ~Missing(f.rows[r][c]) /\ ~IsIntText(f.rows[r][c])

Unreadable(f) == ~f.exists \/ f.cols = {}

\* The failure condition as C1 words it: any cell that is not a number, any
\* date that does not parse, a missing cell being neither.
MalformedAsClaimed(f) ==
    \/ Unreadable(f)
    \/ \E c \in {TP, TC, EA, OB} \cap f.cols : \E r \in DOMAIN f.rows :
          ObjectTyped(f, c) /\ ~NumberAfterCommas(f.rows[r][c])
    \/ OD \in f.cols /\ \E r \in DOMAIN f.rows : ~IsDateText(f.rows[r][OD])

\* The failure condition with missing cells set aside.
Malformed(f) ==
    \/ Unreadable(f)
    \/ \E c \in {TP, TC, EA, OB} \cap f.cols : \E r \in DOMAIN f.rows :
          /\ ObjectTyped(f, c)
          /\ ~Missing(f.rows[r][c])
          /\ ~NumberAfterCommas(f.rows[r][c])
    \/ OD \in f.cols /\ \E r \in DOMAIN f.rows :
          ~Missing(f.rows[r][OD]) /\ ~IsDateText(f.rows[r][OD])

NoRowsNoColumns(d) == d.cols = {} /\ d.rows = <<>>

\* Every column load_data cleans holds numbers (or NaN), the dates are parsed
\* and 'Month_Year' is derived.
FullyCleaned(d) ==
    /\ \A c \in {TP, TC, EA, OB} \cap d.cols : \A r \in DOMAIN d.rows :
          d.rows[r][c].k \in {"num", "nan"}
    /\ OD \in d.cols =>
          /\ MY \in d.cols
          /\ \A r \in DOMAIN d.rows :
                d.rows[r][OD].k \in {"date", "nat"} /\ d.rows[r][MY].k = "str"

EmptyTable(d) == d.cols = {} \/ d.rows = <<>>

\* C2: whenever load_data returned an empty table, the execution computes no
\* KPI, makes no create_plot call, does not render the template, and what it
\* returns is the plain-text error string.
C2_EmptyTableGivesErrorText ==
    \A p \in Procs :
        Loaded(p) /\ EmptyTable(df[p]) =>
            /\ pc[p] \in {"check", "done"}
            /\ kpi[p] = NoKpi
            /\ calls[p] = 0
            /\ urls[p] = <<>>
            /\ pc[p] = "check" => response[p] = NoResponse
            /\ pc[p] = "done" => response[p] = ErrorResponse

\* C2's case: the file holds a header and no rows, load_data returned a table
\* with columns and no rows, and the handler returned the error string.
C2_Witness ==
    /\ pc[1] = "done"
    /\ snapshot[1] = Table(<<>>)
    /\ df[1].cols # {}
    /\ response[1] = ErrorResponse

\* The execution returned something: the error string or a page.
Returned(p) == pc[p] \in {"render", "done"} \/ response[p] # NoResponse

\* C3 as stated: if the file loads to a non-empty table and lacks one of
\* 'Total Price', 'Outstanding Balance', 'Total Cost', 'City', 'Product',
\* 'Expense Type' or 'Order Date', the execution returns nothing.
C3_MissingColumnFaultsAsClaimed ==
    \A p \in Procs :
        /\ Loaded(p)
        /\ ~EmptyTable(df[p])
        /\ ~({TP, OB, TC, CI, PR, ET, OD} \subseteq snapshot[p].cols)
        => ~Returned(p)

\* C3, amended: if the file loads to a non-empty table and lacks one of
\* 'Total Price', 'Outstanding Balance', 'Total Cost', 'City', 'Product',
\* 'Expense Type', or lacks 'Order Date' and has no 'Month_Year' column of
\* its own, the execution returns neither the error string nor a page: it
\* never gets to render, and once it is past the statements that read the
\* tables it has faulted.
C3_MissingColumnFaults ==
    \A p \in Procs :
        /\ Loaded(p)
        /\ ~EmptyTable(df[p])
        /\ \/ ~({TP, OB, TC, CI, PR, ET} \subseteq snapshot[p].cols)
           \/ {OD, MY} \cap snapshot[p].cols = {}
        => /\ ~Returned(p)
           /\ pc[p] \in {"check", "kpi", "figure", "plot", "save", "close", "fault"}
           /\ Len(urls[p]) < Len(PlotFuncs)

\* C3's case: the file lacks 'Product'; the KPIs and the first chart were
\* computed, plot_top_products raised, and nothing was returned.
C3_Witness ==
    /\ pc[1] = "fault"
    /\ PR \notin snapshot[1].cols
    /\ ~EmptyTable(df[1])
    /\ kpi[1].ok
    /\ Len(urls[1]) = 1
    /\ response[1] = NoResponse

\* The execution is over: it returned, or it faulted.
Ended(p) == pc[p] \in {"done", "fault"}

\* C4: nothing is cached.  Whatever requests came before, whatever they read
\* and however they ended, and however the file changed since, what an
\* execution yields (page with its KPIs and charts, error string, or fault)
\* is what the file contents it read yield on their own.
C4_ResponseFromFileAlone ==
    \A p \in Procs : Ended(p) => Yielded(p) = Outcome(snapshot[p])

\* C4's case: an earlier request faulted and left a figure open, the file was
\* replaced after this request read it, and this request returned a page.
C4_Witness ==
    /\ pc[1] = "done"
    /\ response[1].kind = "html"
    /\ figs # <<>>
    /\ file # snapshot[1]

\* The number a cell written with digits and commas stands for.
AmountOf(cell) == DigitsValue(SelectSeq(cell, LAMBDA ch : ch # ","))

\* The sum of a column of the file, cell by cell, missing cells left out.
RECURSIVE ColumnTotal(_, _, _)
ColumnTotal(f, c, n) ==
    IF n = 0 THEN 0
    ELSE ColumnTotal(f, c, n - 1)
         + (IF Missing(f.rows[n][c]) THEN 0 ELSE AmountOf(f.rows[n][c]))

\* Every amount of the file is written with digits and commas (or is
\* missing), and every date parses (or is missing).
AmountsWellWritten(f) ==
    /\ f.exists
    /\ {TP, TC, EA, OB} \subseteq f.cols
    /\ \A c \in {TP, TC, EA, OB} : \A r \in DOMAIN f.rows :
          Missing(f.rows[r][c]) \/ NumberAfterCommas(f.rows[r][c])
    /\ OD \in f.cols =>
          \A r \in DOMAIN f.rows : Missing(f.rows[r][OD]) \/ IsDateText(f.rows[r][OD])

\* C5: a file whose amounts are written with digits and commas loads, every
\* such cell of the four cleaned columns becomes the number left when the
\* commas are deleted, and the KPIs of the page are the column sums of those
\* numbers (revenue, outstanding balance, revenue minus cost), formatted.
C5_CommasStripped ==
    \A p \in Procs :
        Loaded(p) /\ AmountsWellWritten(snapshot[p]) =>
            LET f == snapshot[p] IN
            /\ df[p].cols # {}
            /\ Len(df[p].rows) = Len(f.rows)
            /\ \A c \in {TP, TC, EA, OB} : \A r \in DOMAIN f.rows :
                  ~Missing(f.rows[r][c]) => df[p].rows[r][c] = Num(AmountOf(f.rows[r][c]))
            /\ response[p].kind = "html" =>
                  /\ response[p].revenue = FormatThousands(ColumnTotal(f, TP, Len(f.rows)))
                  /\ response[p].outstanding = FormatThousands(ColumnTotal(f, OB, Len(f.rows)))
                  /\ response[p].profit =
                        FormatThousands(ColumnTotal(f, TP, Len(f.rows))
                                        - ColumnTotal(f, TC, Len(f.rows)))

\* C5's case: 'Total Price' holds "1,2" and "1,234"; the page reports their
\* sum, 1246, as revenue.
C5_Witness ==
    /\ pc[1] = "done"
    /\ response[1].kind = "html"
    /\ snapshot[1].cols = Schema
    /\ Len(snapshot[1].rows) = 2
    /\ snapshot[1].rows[1][TP] = <<"1", ",", "2">>
    /\ snapshot[1].rows[2][TP] = <<"1", ",", "2", "3", "4">>
    /\ response[1].revenue = <<"1", ",", "2", "4", "6">>

\* The file with its rows in another order.
Permuted(f, perm) == [f EXCEPT !.rows = [i \in DOMAIN f.rows |-> f.rows[perm[i]]]]

\* Reorderings of n rows: every exchange of two rows, both rotations and the
\* reversal (for up to three rows these are all the permutations).
RowOrders(n) ==
    {[i \in 1..n |-> IF i = a THEN b ELSE IF i = b THEN a ELSE i] : a, b \in 1..n}
    \cup {[i \in 1..n |-> (i % n) + 1],
          [i \in 1..n |-> ((i + n - 2) % n) + 1],
          [i \in 1..n |-> n + 1 - i]}

ChartData(p, i) == response[p].plots[i].png.art[1].data

Smaller(a, b) == IF a < b THEN a ELSE b

\* top is a top-n selection of the group sums all: it holds n groups, or all
\* of them when there are fewer, largest first, each a group of all and none
\* twice, and no group left out has a larger sum than one that is in.
TopSelection(top, all, n) ==
    /\ Len(top) = Smaller(n, Len(all))
    /\ \A i, j \in DOMAIN top : i < j => top[i].val >= top[j].val /\ top[i].key # top[j].key
    /\ \A i \in DOMAIN top : \E j \in DOMAIN all : all[j] = top[i]
    /\ \A j \in DOMAIN all :
          (\A i \in DOMAIN top : top[i] # all[j]) =>
              \A i \in DOMAIN top : all[j].val <= top[i].val

\* C7 as stated: on every page the product list and the city list hold
\* exactly 10 groups each.
C7_ExactlyTenAsClaimed ==
    \A p \in Procs :
        response[p].kind = "html" =>
            Len(ChartData(p, 2)) = TopProducts /\ Len(ChartData(p, 3)) = TopCities

\* C7, amended: the product list charted by plot_top_products and the city
\* list charted by plot_city_balance hold 10 groups each, or every group when
\* the table has fewer than 10, ordered by their summed value from largest to
\* smallest, and no group left out has a larger sum than a group included.
C7_TopTen ==
    \A p \in Procs :
        response[p].kind = "html" =>
            /\ TopSelection(ChartData(p, 2), GroupSum(df[p], PR, TP).data, TopProducts)
            /\ TopSelection(ChartData(p, 3), GroupSum(df[p], CI, OB).data, TopCities)

\* C7's case: the table has more than 10 products and more than 10 cities,
\* with unequal sums, and the page charts 10 of each.
C7_Witness ==
    /\ pc[1] = "done"
    /\ response[1].kind = "html"
    /\ Len(GroupSum(df[1], PR, TP).data) > TopProducts
    /\ Len(GroupSum(df[1], CI, OB).data) > TopCities
    /\ Len(ChartData(1, 2)) = TopProducts
    /\ ChartData(1, 2)[1].val > ChartData(1, 2)[TopProducts].val
    /\ ChartData(1, 3)[1].val > ChartData(1, 3)[TopCities].val

\* C8: under any interleaving of two executions, every chart image an
\* execution has made holds exactly the drawing of its own plot function, and
\* every create_plot call closed the figure it opened.
C8_ExecutionsIsolated ==
    \A p \in Procs :
        /\ \A i \in DOMAIN urls[p] :
              urls[p][i].png.art = <<PlotFunc(i, df[p]).art>>
        /\ pc[p] \in {"figure", "render", "done"} /\ calls[p] > 0 =>
              closed[p] = opened[p]

\* C9: the handler returns the error string only when load_data failed to
\* read or parse the file (and so printed its error).
C9_ErrorTextOnlyOnLoadFailure ==
    \A p \in Procs : response[p] = ErrorResponse => logged[p]

\* C10: when no execution is under way, whatever the outcomes of the earlier
\* ones, no pyplot figure is open.
C10_NoFigureLeftOpen ==
    (\A p \in Procs : pc[p] = "idle") => figs = <<>>

====
